---- MODULE Spec2Model ----
(***************************************************************************)
(* State-machine model of script.js: a player that shoots pooled           *)
(* projectiles at a bouncing wave of enemies.  One action per handler:     *)
(* the keydown listener, the keyup listener and Game.render (one frame).   *)
(***************************************************************************)
EXTENDS Integers, Sequences, FiniteSets, TLC

VARIABLES keys, player, projectilesPool, waves, log, frame, nEvents,
          event, rectA, rectB, result

\* the game; event is the input of the last handler that ran
gameVars == <<keys, player, projectilesPool, waves, log, frame, nEvents, event>>

\* two rectangles handed to Game.checkCollision and what it returned
collisionVars == <<rectA, rectB, result>>

vars == <<keys, player, projectilesPool, waves, log, frame, nEvents,
          event, rectA, rectB, result>>

(***************************************************************************)
(* Bounds of the exploration.                                              *)
(***************************************************************************)
MaxFrames == 41
MaxKeyEvents == 2
MaxInputFrames == 6
MaxPoolFrames == 2
MaxPoolKeyEvents == 12
MaxLongFrames == 290
MaxLongKeyEvents == 2
MaxLongInputFrames == 3
MaxRefireKeyEvents == 4
MaxRefireEarlyFrames == 2
MaxRefireFrames == 40
MaxFireKeyEvents == 2
MaxFireFrames == 61
MaxCoord == 3
MaxSize == 2

(***************************************************************************)
(* Program constants.                                                      *)
(***************************************************************************)
canvasWidth == 600
canvasHeight == 800
numberOfProjectiles == 10
columns == 3
rows == 3
enemySize == 60
playerWidth == 100
playerHeight == 100
playerSpeed == 5
projectileWidth == 4
projectileHeight == 20
projectileSpeed == 20
waveSpeedX == 3
waveEntryStep == 5

\* event.key values delivered to the listeners
Keys == {"ArrowLeft", "ArrowRight", "1"}

Half(n) == n \div 2

Includes(s, k) == \E i \in 1..Len(s) : s[i] = k

\* Array.prototype.indexOf, 1-based; 0 stands for -1
IndexOf(s, k) ==
    IF Includes(s, k) THEN CHOOSE i \in 1..Len(s) : s[i] = k /\ \A j \in 1..(i-1) : s[j] # k
    ELSE 0

\* Array.prototype.splice(i, 1)
Splice(s, i) == [j \in 1..(Len(s)-1) |-> IF j < i THEN s[j] ELSE s[j+1]]

(***************************************************************************)
(* Calls observed during the last handler, in call order: the canvas calls *)
(* (fillRect, strokeRect) and the calls to shoot, start and reset.  id is  *)
(* the pool slot or the enemy's grid cell; by is the grid cell of the      *)
(* enemy whose update made the call, 0 otherwise; marked is the drawn      *)
(* enemy's markedForDeletion.                                              *)
(***************************************************************************)
LogRec(op, kind, id, r, by, marked) ==
    [op |-> op, kind |-> kind, id |-> id, x |-> r.x, y |-> r.y,
     width |-> r.width, height |-> r.height, by |-> by, marked |-> marked]

(***************************************************************************)
(* Game.checkCollision                                                     *)
(***************************************************************************)
\* a test that also reports rectangles touching along an edge
checkCollisionTouching(a, b) ==
    /\ a.x <= b.x + b.width
    /\ a.x + a.width >= b.x
    /\ a.y <= b.y + b.height
    /\ a.y + a.height >= b.y

\* a test that forgets a's right edge
checkCollisionOneSided(a, b) ==
    /\ a.x < b.x + b.width
    /\ a.y < b.y + b.height
    /\ a.y + a.height > b.y

checkCollision(a, b) ==
    /\ a.x < b.x + b.width
    /\ a.x + a.width > b.x
    /\ a.y < b.y + b.height
    /\ a.y + a.height > b.y

(***************************************************************************)
(* Player                                                                  *)
(***************************************************************************)
NewPlayer ==
    [width |-> playerWidth, height |-> playerHeight,
     x |-> Half(canvasWidth) - Half(playerWidth),
     y |-> canvasHeight - playerHeight,
     speed |-> playerSpeed]

PlayerDraw(p) == LogRec("fillRect", "player", 0, p, 0, FALSE)

PlayerMove(p, ks) ==
    LET x1 == IF Includes(ks, "ArrowLeft") THEN p.x - p.speed ELSE p.x
        x2 == IF Includes(ks, "ArrowRight") THEN x1 + p.speed ELSE x1
    IN  x2

PlayerClampNone(p, x) == x

PlayerClamp(p, x) ==
    IF x < -Half(p.width) THEN -Half(p.width)
    ELSE IF x > canvasWidth - Half(p.width) THEN canvasWidth - Half(p.width)
    ELSE x

PlayerUpdate(p, ks) == [p EXCEPT !.x = PlayerClamp(p, PlayerMove(p, ks))]

(***************************************************************************)
(* Projectile                                                              *)
(***************************************************************************)
NewProjectile ==
    [width |-> projectileWidth, height |-> projectileHeight,
     x |-> 0, y |-> 0, speed |-> projectileSpeed, free |-> TRUE]

\* a reset that leaves the slot Active
ProjectileResetNoop(p) == p

ProjectileReset(p) == [p EXCEPT !.free = TRUE]

ProjectileStart(p, x, y) ==
    [p EXCEPT !.x = x - Half(p.width), !.y = y, !.free = FALSE]

\* an update that already frees the projectile at y = -height
ProjectileUpdateExitEarly(p, i) ==
    IF ~p.free
    THEN LET moved == [p EXCEPT !.y = p.y - p.speed]
         IN  IF moved.y <= -moved.height
             THEN [p |-> ProjectileReset(moved),
                   log |-> <<LogRec("reset", "update", i, moved, 0, FALSE)>>]
             ELSE [p |-> moved, log |-> <<>>]
    ELSE [p |-> p, log |-> <<>>]

\* Projectile.update for pool slot i: the projectile and the calls it made
ProjectileUpdate(p, i) ==
    IF ~p.free
    THEN LET moved == [p EXCEPT !.y = p.y - p.speed]
         IN  IF moved.y < -moved.height
             THEN [p |-> ProjectileReset(moved),
                   log |-> <<LogRec("reset", "update", i, moved, 0, FALSE)>>]
             ELSE [p |-> moved, log |-> <<>>]
    ELSE [p |-> p, log |-> <<>>]

ProjectileDraw(p, i) ==
    IF ~p.free THEN <<LogRec("fillRect", "projectile", i, p, 0, FALSE)>> ELSE <<>>

createProjectiles == [i \in 1..numberOfProjectiles |-> NewProjectile]

\* a lookup that hands out slot 1 again when no slot is free
getProjectileRecycle(pool) ==
    IF \E i \in 1..Len(pool) : pool[i].free
    THEN CHOOSE i \in 1..Len(pool) :
            pool[i].free /\ \A j \in 1..(i-1) : ~pool[j].free
    ELSE 1

\* a lookup that starts after the highest Active slot
getProjectileAfterLastActive(pool) ==
    LET last == IF \E i \in 1..Len(pool) : ~pool[i].free
                THEN CHOOSE i \in 1..Len(pool) :
                        ~pool[i].free /\ \A j \in (i+1)..Len(pool) : pool[j].free
                ELSE 0
    IN  IF last < Len(pool) THEN last + 1 ELSE 0

\* Game.getProjectile: slot of the first free projectile, 0 for undefined
getProjectile(pool) ==
    IF \E i \in 1..Len(pool) : pool[i].free
    THEN CHOOSE i \in 1..Len(pool) :
            pool[i].free /\ \A j \in 1..(i-1) : ~pool[j].free
    ELSE 0

\* a shot that allocates a new projectile when the pool is exhausted
shootGrow(p, pool) ==
    LET i == getProjectile(pool)
        x == p.x + Half(p.width)
    IN  IF i # 0
        THEN [pool |-> [pool EXCEPT ![i] = ProjectileStart(pool[i], x, p.y)],
              log |-> <<LogRec("shoot", "player", i, p, 0, FALSE),
                        LogRec("start", "projectile", i, ProjectileStart(pool[i], x, p.y), 0, FALSE)>>]
        ELSE [pool |-> Append(pool, ProjectileStart(NewProjectile, x, p.y)),
              log |-> <<LogRec("shoot", "player", i, p, 0, FALSE)>>]

\* Player.shoot: the pool after the call and the calls made; the "shoot"
\* record carries the slot getProjectile returned
shoot(p, pool) ==
    LET i == getProjectile(pool)
        x == p.x + Half(p.width)
    IN  IF i # 0
        THEN [pool |-> [pool EXCEPT ![i] = ProjectileStart(pool[i], x, p.y)],
              log |-> <<LogRec("shoot", "player", i, p, 0, FALSE),
                        LogRec("start", "projectile", i, ProjectileStart(pool[i], x, p.y), 0, FALSE)>>]
        ELSE [pool |-> pool, log |-> <<LogRec("shoot", "player", i, p, 0, FALSE)>>]

(***************************************************************************)
(* Enemy                                                                   *)
(***************************************************************************)
NewEnemy(positionX, positionY) ==
    [width |-> enemySize, height |-> enemySize, x |-> 0, y |-> 0,
     positionX |-> positionX, positionY |-> positionY,
     markedForDeletion |-> FALSE]

\* grid cell number of an enemy, 1..rows*columns in creation order
EnemyId(e) == (e.positionY \div enemySize) * columns + (e.positionX \div enemySize) + 1

EnemyDraw(e) == LogRec("strokeRect", "enemy", EnemyId(e), e, 0, e.markedForDeletion)

\* the loop stopping at the first overlapping projectile
RECURSIVE EnemyCollideFirst(_, _, _, _)
EnemyCollideFirst(e, pool, i, lg) ==
    IF i > Len(pool) THEN [enemy |-> e, pool |-> pool, log |-> lg]
    ELSE IF ~pool[i].free /\ checkCollision(e, pool[i])
         THEN [enemy |-> [e EXCEPT !.markedForDeletion = TRUE],
               pool |-> [pool EXCEPT ![i] = ProjectileReset(pool[i])],
               log |-> Append(lg, LogRec("reset", "enemy", i, pool[i], EnemyId(e), FALSE))]
         ELSE EnemyCollideFirst(e, pool, i + 1, lg)

\* the loop without the test of the free flag
RECURSIVE EnemyCollideIgnoreFree(_, _, _, _)
EnemyCollideIgnoreFree(e, pool, i, lg) ==
    IF i > Len(pool) THEN [enemy |-> e, pool |-> pool, log |-> lg]
    ELSE IF checkCollision(e, pool[i])
         THEN EnemyCollideIgnoreFree([e EXCEPT !.markedForDeletion = TRUE],
                           [pool EXCEPT ![i] = ProjectileReset(pool[i])],
                           i + 1,
                           Append(lg, LogRec("reset", "enemy", i, pool[i], EnemyId(e), FALSE)))
         ELSE EnemyCollideIgnoreFree(e, pool, i + 1, lg)

\* the loop over the pool in Enemy.update, from slot i on
RECURSIVE EnemyCollide(_, _, _, _)
EnemyCollide(e, pool, i, lg) ==
    IF i > Len(pool) THEN [enemy |-> e, pool |-> pool, log |-> lg]
    ELSE IF ~pool[i].free /\ checkCollision(e, pool[i])
         THEN EnemyCollide([e EXCEPT !.markedForDeletion = TRUE],
                           [pool EXCEPT ![i] = ProjectileReset(pool[i])],
                           i + 1,
                           Append(lg, LogRec("reset", "enemy", i, pool[i], EnemyId(e), FALSE)))
         ELSE EnemyCollide(e, pool, i + 1, lg)

\* an update whose collisions leave the projectiles Active
EnemyUpdateKeepPool(e, x, y, pool) ==
    [EnemyCollide([e EXCEPT !.x = e.positionX + x, !.y = e.positionY + y], pool, 1, <<>>)
        EXCEPT !.pool = pool]

\* an update that checks collisions at the old position
EnemyUpdateNoMove(e, x, y, pool) == EnemyCollide(e, pool, 1, <<>>)

EnemyUpdate(e, x, y, pool) ==
    EnemyCollide([e EXCEPT !.x = e.positionX + x, !.y = e.positionY + y], pool, 1, <<>>)

(***************************************************************************)
(* Wave                                                                    *)
(***************************************************************************)
\* Wave.#create: row-major grid
WaveCreate ==
    [n \in 1..(rows * columns) |->
        NewEnemy(((n - 1) % columns) * enemySize, ((n - 1) \div columns) * enemySize)]

NewWave ==
    [width |-> columns * enemySize, height |-> rows * enemySize,
     x |-> 0, y |-> -(rows * enemySize),
     speedX |-> waveSpeedX, speedY |-> 0,
     enemies |-> WaveCreate]

\* an entry easing that still applies at origin.y = 0
WaveMoveEaseAtZero(w) ==
    LET y1 == IF w.y <= 0 THEN w.y + waveEntryStep ELSE w.y
        bounce == w.x < 0 \/ w.x > canvasWidth - w.width
        sx == IF bounce THEN -w.speedX ELSE w.speedX
        sy == IF bounce THEN enemySize ELSE 0
    IN  [w EXCEPT !.x = w.x + sx, !.y = y1 + sy, !.speedX = sx, !.speedY = sy]

\* a bounce frame that still moves by the old horizontal speed
WaveMoveReverseAfterStep(w) ==
    LET y1 == IF w.y < 0 THEN w.y + waveEntryStep ELSE w.y
        bounce == w.x < 0 \/ w.x > canvasWidth - w.width
        sx == IF bounce THEN -w.speedX ELSE w.speedX
        sy == IF bounce THEN enemySize ELSE 0
    IN  [w EXCEPT !.x = w.x + w.speedX, !.y = y1 + sy, !.speedX = sx, !.speedY = sy]

\* a bounce decided on the position the move would reach
WaveMoveLookahead(w) ==
    LET y1 == IF w.y < 0 THEN w.y + waveEntryStep ELSE w.y
        bounce == w.x + w.speedX < 0 \/ w.x + w.speedX > canvasWidth - w.width
        sx == IF bounce THEN -w.speedX ELSE w.speedX
        sy == IF bounce THEN enemySize ELSE 0
    IN  [w EXCEPT !.x = w.x + sx, !.y = y1 + sy, !.speedX = sx, !.speedY = sy]

\* lines 189-198: the origin after this frame's move
WaveMove(w) ==
    LET y1 == IF w.y < 0 THEN w.y + waveEntryStep ELSE w.y
        bounce == w.x < 0 \/ w.x > canvasWidth - w.width
        sx == IF bounce THEN -w.speedX ELSE w.speedX
        sy == IF bounce THEN enemySize ELSE 0
    IN  [w EXCEPT !.x = w.x + sx, !.y = y1 + sy, !.speedX = sx, !.speedY = sy]

\* lines 200-203: update and draw each enemy, from position i on
RECURSIVE WaveEnemies(_, _, _, _)
WaveEnemies(w, pool, i, lg) ==
    IF i > Len(w.enemies) THEN [wave |-> w, pool |-> pool, log |-> lg]
    ELSE LET r == EnemyUpdate(w.enemies[i], w.x, w.y, pool)
         IN  WaveEnemies([w EXCEPT !.enemies[i] = r.enemy], r.pool, i + 1,
                         lg \o r.log \o <<EnemyDraw(r.enemy)>>)

\* line 205 without the removal
WaveFilterNone(es) == es

\* line 205
WaveFilter(es) == SelectSeq(es, LAMBDA e : ~e.markedForDeletion)

\* a frame that prunes the enemies marked in the frame before, then updates
WaveDrawDelayed(w, pool) ==
    WaveEnemies(WaveMove([w EXCEPT !.enemies = WaveFilter(w.enemies)]), pool, 1, <<>>)

WaveDraw(w, pool) ==
    LET r == WaveEnemies(WaveMove(w), pool, 1, <<>>)
    IN  [wave |-> [r.wave EXCEPT !.enemies = WaveFilter(r.wave.enemies)],
         pool |-> r.pool, log |-> r.log]

(***************************************************************************)
(* Game.render                                                             *)
(***************************************************************************)
\* lines 279-282, from slot i on
RECURSIVE RenderProjectiles(_, _, _)
RenderProjectiles(pool, i, lg) ==
    IF i > Len(pool) THEN [pool |-> pool, log |-> lg]
    ELSE LET r == ProjectileUpdate(pool[i], i)
         IN  RenderProjectiles([pool EXCEPT ![i] = r.p], i + 1,
                               lg \o r.log \o ProjectileDraw(r.p, i))

\* lines 284-286, from wave i on
RECURSIVE RenderWaves(_, _, _, _)
RenderWaves(ws, pool, i, lg) ==
    IF i > Len(ws) THEN [waves |-> ws, pool |-> pool, log |-> lg]
    ELSE LET r == WaveDraw(ws[i], pool)
         IN  RenderWaves([ws EXCEPT ![i] = r.wave], r.pool, i + 1, lg \o r.log)

TypeOK ==
    /\ keys \in Seq(Keys)
    /\ frame \in Nat
    /\ nEvents \in Nat

Init ==
    /\ keys = <<>>
    /\ player = NewPlayer
    /\ projectilesPool = createProjectiles
    /\ waves = <<NewWave>>
    /\ log = <<>>
    /\ frame = 0
    /\ nEvents = 0
    /\ event = [type |-> "none", key |-> ""]
    /\ rectA = [x |-> 0, y |-> 0, width |-> 0, height |-> 0]
    /\ rectB = [x |-> 0, y |-> 0, width |-> 0, height |-> 0]
    /\ result = [done |-> FALSE, ab |-> FALSE, ba |-> FALSE]

\* a keydown listener that pushes the key without looking for it
KeyDownAlwaysPush(k) ==
    LET r == IF k = "1" THEN shoot(player, projectilesPool)
             ELSE [pool |-> projectilesPool, log |-> <<>>]
    IN  /\ keys' = Append(keys, k)
        /\ projectilesPool' = r.pool
        /\ log' = r.log
        /\ nEvents' = nEvents + 1
        /\ event' = [type |-> "keydown", key |-> k]
        /\ UNCHANGED <<player, waves, frame>>
        /\ UNCHANGED collisionVars

\* the keydown listener
KeyDown(k) ==
    LET r == IF k = "1" THEN shoot(player, projectilesPool)
             ELSE [pool |-> projectilesPool, log |-> <<>>]
    IN  /\ keys' = IF ~Includes(keys, k) THEN Append(keys, k) ELSE keys
        /\ projectilesPool' = r.pool
        /\ log' = r.log
        /\ nEvents' = nEvents + 1
        /\ event' = [type |-> "keydown", key |-> k]
        /\ UNCHANGED <<player, waves, frame>>
        /\ UNCHANGED collisionVars

\* the keyup listener
KeyUp(k) ==
    LET keyIndex == IndexOf(keys, k)
    IN  /\ keys' = IF keyIndex > 0 THEN Splice(keys, keyIndex) ELSE keys
        /\ log' = <<>>
        /\ nEvents' = nEvents + 1
        /\ event' = [type |-> "keyup", key |-> k]
        /\ UNCHANGED <<player, projectilesPool, waves, frame>>
        /\ UNCHANGED collisionVars

\* a frame that runs the waves before the projectiles
RenderWavesFirst ==
    \E rw \in {RenderWaves(waves, projectilesPool, 1, <<PlayerDraw(player)>>)} :
    \E rp \in {RenderProjectiles(rw.pool, 1, rw.log)} :
        /\ player' = PlayerUpdate(player, keys)
        /\ projectilesPool' = rp.pool
        /\ waves' = rw.waves
        /\ log' = rp.log
        /\ frame' = frame + 1
        /\ event' = [type |-> "frame", key |-> ""]
        /\ UNCHANGED <<keys, nEvents>>
        /\ UNCHANGED collisionVars

\* a frame whose Player.update also shoots while "1" is held
RenderAutoFire ==
    \E p2 \in {PlayerUpdate(player, keys)} :
    \E sh \in {IF Includes(keys, "1") THEN shoot(p2, projectilesPool)
                ELSE [pool |-> projectilesPool, log |-> <<>>]} :
    \E rp \in {RenderProjectiles(sh.pool, 1, <<PlayerDraw(player)>> \o sh.log)} :
    \E rw \in {RenderWaves(waves, rp.pool, 1, rp.log)} :
        /\ player' = p2
        /\ projectilesPool' = rw.pool
        /\ waves' = rw.waves
        /\ log' = rw.log
        /\ frame' = frame + 1
        /\ event' = [type |-> "frame", key |-> ""]
        /\ UNCHANGED <<keys, nEvents>>
        /\ UNCHANGED collisionVars

\* one animation frame: Game.render
Render ==
    \E rp \in {RenderProjectiles(projectilesPool, 1, <<PlayerDraw(player)>>)} :
    \E rw \in {RenderWaves(waves, rp.pool, 1, rp.log)} :
        /\ player' = PlayerUpdate(player, keys)
        /\ projectilesPool' = rw.pool
        /\ waves' = rw.waves
        /\ log' = rw.log
        /\ frame' = frame + 1
        /\ event' = [type |-> "frame", key |-> ""]
        /\ UNCHANGED <<keys, nEvents>>
        /\ UNCHANGED collisionVars

\* the load listener builds the game and calls animate() in the same task:
\* the first frame has been rendered when a key listener can first run
Loaded == frame >= 1

\* key events arrive between frames, from the first frame to frame
\* maxInputFrames, at most maxEvents of them
InputOpen(maxEvents, maxInputFrames) ==
    Loaded /\ nEvents < maxEvents /\ frame <= maxInputFrames

Next ==
    \/ (InputOpen(MaxKeyEvents, MaxInputFrames) /\ \E k \in Keys : KeyDown(k))
    \/ (InputOpen(MaxKeyEvents, MaxInputFrames) /\ \E k \in Keys : KeyUp(k))
    \/ (frame < MaxFrames /\ Render)

Spec == Init /\ [][Next]_vars

\* many key events, few frames: the pool can be exhausted
NextPool ==
    \/ (Loaded /\ nEvents < MaxPoolKeyEvents /\ \E k \in Keys : KeyDown(k))
    \/ (Loaded /\ nEvents < MaxPoolKeyEvents /\ \E k \in Keys : KeyUp(k))
    \/ (frame < MaxPoolFrames /\ Render)

SpecPool == Init /\ [][NextPool]_vars

\* keys set up after the first frame, then many frames: the player reaches
\* the world's edges and the wave bounces
NextLong ==
    \/ (InputOpen(MaxLongKeyEvents, MaxLongInputFrames) /\ \E k \in Keys : KeyDown(k))
    \/ (InputOpen(MaxLongKeyEvents, MaxLongInputFrames) /\ \E k \in Keys : KeyUp(k))
    \/ (frame < MaxLongFrames /\ Render)

SpecLong == Init /\ [][NextLong]_vars

\* animate re-arms requestAnimationFrame in every frame, so frames keep
\* occurring: below the bound a frame step (Render, which is always
\* enabled there, and the only step that advances frame) eventually runs
AnimationFrame == frame < MaxLongFrames /\ frame' = frame + 1

SpecLongFair == SpecLong /\ WF_frame(AnimationFrame)

\* frames a projectile fired at the player's top edge stays Active, plus one:
\* a shot fired after frame f is Free again from frame f + ProjectileLifetime on
ProjectileLifetime ==
    (canvasHeight - playerHeight + projectileHeight) \div projectileSpeed + 1

\* key events arrive from the first frame to frame MaxRefireEarlyFrames and
\* again once the first projectiles have left the top: slots are reused
\* while later ones are still Active
RefireOpen ==
    /\ Loaded /\ nEvents < MaxRefireKeyEvents
    /\ (frame <= MaxRefireEarlyFrames \/ frame > ProjectileLifetime)

NextRefire ==
    \/ (RefireOpen /\ \E k \in Keys : KeyDown(k))
    \/ (RefireOpen /\ \E k \in Keys : KeyUp(k))
    \/ (frame < MaxRefireFrames /\ Render)

SpecRefire == Init /\ [][NextRefire]_vars

\* the fire key alone, pressed at any time: shots that meet the wave at
\* every horizontal offset
NextFire ==
    \/ (Loaded /\ nEvents < MaxFireKeyEvents /\ KeyDown("1"))
    \/ (frame < MaxFireFrames /\ Render)

SpecFire == Init /\ [][NextFire]_vars

\* Game.checkCollision on its own: rectangles with corners in 0..MaxCoord
\* and sides in 0..MaxSize (corners from -1 on: the game has rectangles left of and above the canvas), checked in both argument orders
Rects ==
    [x : -1..MaxCoord, y : -1..MaxCoord, width : 0..MaxSize, height : 0..MaxSize]

InitCollision ==
    /\ keys = <<>>
    /\ player = NewPlayer
    /\ projectilesPool = createProjectiles
    /\ waves = <<NewWave>>
    /\ log = <<>>
    /\ frame = 0
    /\ nEvents = 0
    /\ event = [type |-> "none", key |-> ""]
    /\ rectA \in Rects
    /\ rectB \in Rects
    /\ result = [done |-> FALSE, ab |-> FALSE, ba |-> FALSE]

CallCheckCollision ==
    /\ ~result.done
    /\ result' = [done |-> TRUE,
                  ab |-> checkCollision(rectA, rectB),
                  ba |-> checkCollision(rectB, rectA)]
    /\ UNCHANGED <<rectA, rectB>>
    /\ UNCHANGED gameVars

NextCollision == CallCheckCollision

SpecCollision == InitCollision /\ [][NextCollision]_vars

(***************************************************************************)
(* Properties                                                              *)
(***************************************************************************)
ActiveSlots == {i \in 1..Len(projectilesPool) : ~projectilesPool[i].free}

ActiveCount == Cardinality(ActiveSlots)

IsShootLog(l) == Len(l) >= 1 /\ l[1].op = "shoot"

\* C2: a key event handled while every pool slot is Active (in particular a
\* shoot() call) changes no slot, adds no projectile and leaves player and
\* wave alone.
C2_ShootOnFullPoolIsNoOp ==
    [][(ActiveCount = numberOfProjectiles /\ nEvents' # nEvents)
        => (projectilesPool' = projectilesPool /\ player' = player /\ waves' = waves)]_vars

\* the 11th of 11 consecutive shoot() calls found no free slot: 10 active, 0 free
C2_Witness ==
    /\ frame = 1 /\ nEvents = numberOfProjectiles + 1
    /\ IsShootLog(log) /\ log[1].id = 0 /\ Len(log) = 1
    /\ ActiveCount = numberOfProjectiles
    /\ \A i \in 1..Len(projectilesPool) : ~projectilesPool[i].free

\* C3: the pool always holds exactly the 10 slots made at construction and
\* between 0 and 10 of them are Active.
C3_PoolSizeFixed ==
    /\ Len(projectilesPool) = numberOfProjectiles
    /\ DOMAIN projectilesPool = 1..numberOfProjectiles
    /\ ActiveCount \in 0..numberOfProjectiles

\* a frame has run and a shot was attempted on the exhausted pool
C3_Witness ==
    /\ frame >= 1 /\ IsShootLog(log) /\ log[1].id = 0
    /\ ActiveCount = numberOfProjectiles

(***************************************************************************)
(* Reading the log of a frame.                                             *)
(***************************************************************************)
Rect(l) == [x |-> l.x, y |-> l.y, width |-> l.width, height |-> l.height]

Resets(l) == {j \in 1..Len(l) : l[j].op = "reset"}

EnemyDraws(l) == {j \in 1..Len(l) : l[j].op = "strokeRect"}

ProjectileDraws(l) == {j \in 1..Len(l) : l[j].op = "fillRect" /\ l[j].kind = "projectile"}

\* slots reset by the update of the enemy in grid cell n
ResetsBy(l, n) ==
    {l[j].id : j \in {k \in Resets(l) : l[k].kind = "enemy" /\ l[k].by = n}}

\* slots Active when the update of the enemy drawn at l[j] began: drawn after
\* the projectile pass and not yet reset by an enemy updated earlier
ActiveAt(l, j) ==
    {l[k].id : k \in ProjectileDraws(l)}
        \ {l[k].id : k \in {m \in Resets(l) : m < j /\ l[m].kind = "enemy" /\ l[m].by # l[j].id}}

DrawOf(l, i) == CHOOSE k \in ProjectileDraws(l) : l[k].id = i

\* slots Active at that point whose rectangle overlaps the enemy drawn at l[j]
Overlapping(l, j) ==
    {i \in ActiveAt(l, j) : checkCollision(Rect(l[j]), Rect(l[DrawOf(l, i)]))}

EnemyIds(es) == {EnemyId(es[i]) : i \in 1..Len(es)}

\* C1 as stated: one Enemy.update returns at most one projectile to Free.
C1_AtMostOneResetPerEnemy ==
    \A j \in EnemyDraws(log) : Cardinality(ResetsBy(log, log[j].id)) <= 1

\* C1: one Enemy.update returns to Free every Active projectile that
\* overlaps the enemy (all of them, not only the first in slot order), and
\* an Active projectile no enemy overlaps stays Active.
C1_EveryOverlappingReset ==
    /\ \A j \in EnemyDraws(log) :
          /\ ResetsBy(log, log[j].id) = Overlapping(log, j)
          /\ \A i \in ResetsBy(log, log[j].id) : projectilesPool[i].free
    /\ \A k \in ProjectileDraws(log) :
          (\A j \in EnemyDraws(log) : log[k].id \notin ResetsBy(log, log[j].id))
              => ~projectilesPool[log[k].id].free

\* one enemy's update reset two or more projectiles
C1_Witness ==
    \E j \in EnemyDraws(log) :
        /\ Cardinality(ResetsBy(log, log[j].id)) >= 2
        /\ Cardinality(Overlapping(log, j)) >= 2

\* C4: a shoot() that finds a free slot raises the Active count by exactly
\* 1; in a frame the slots going from Active to Free are exactly the slots
\* reset, each reset once (by Projectile.update or by one Enemy.update,
\* never both), and no Free slot becomes Active.
C4_ActiveCountSteps ==
    [][/\ (nEvents' # nEvents /\ IsShootLog(log') /\ log'[1].id # 0)
            => /\ ActiveCount' = ActiveCount + 1
               /\ ActiveSlots' = ActiveSlots \cup {log'[1].id}
       /\ (frame' # frame)
            => /\ \A j, k \in Resets(log') : log'[j].id = log'[k].id => j = k
               /\ {log'[j].id : j \in Resets(log')} = ActiveSlots \ ActiveSlots'
               /\ ActiveSlots' \subseteq ActiveSlots
               /\ ActiveCount' = ActiveCount - Cardinality(Resets(log'))]_vars

\* in one frame a projectile left the top bound and another hit an enemy
C4_Witness ==
    /\ \E j \in Resets(log) : log[j].kind = "update" /\ projectilesPool[log[j].id].free
    /\ \E j \in Resets(log) : log[j].kind = "enemy" /\ projectilesPool[log[j].id].free

\* C6: an enemy marked during a frame was in the collection when that frame
\* updated and drew it, is drawn in that frame, and is in the collection in
\* no later frame.
C6_MarkedDrawnThenAbsent ==
    [][(frame' # frame)
        => /\ {log'[j].id : j \in EnemyDraws(log')} = EnemyIds(waves[1].enemies)
           /\ \A j \in EnemyDraws(log') :
                 log'[j].marked => log'[j].id \notin EnemyIds(waves'[1].enemies)
           /\ EnemyIds(waves'[1].enemies) \subseteq EnemyIds(waves[1].enemies)]_vars

\* an enemy was drawn marked in the last frame and is gone from the collection
C6_Witness ==
    \E j \in EnemyDraws(log) :
        /\ log[j].marked
        /\ log[j].id \notin EnemyIds(waves[1].enemies)
        /\ ResetsBy(log, log[j].id) # {}

\* C7 as stated: an enemy marked during a frame is still in the collection
\* when that frame ends (its removal waits for the next frame).
C7_RemovalDelayed ==
    \A j \in EnemyDraws(log) : log[j].marked => log[j].id \in EnemyIds(waves[1].enemies)

\* C7: removal is not delayed: the frame that marks an enemy removes it, so
\* after a frame the collection holds exactly the enemies drawn unmarked and
\* no enemy in the collection is marked.
C7_RemovedInMarkingFrame ==
    /\ \A j \in EnemyDraws(log) :
          log[j].marked <=> log[j].id \notin EnemyIds(waves[1].enemies)
    /\ \A i \in 1..Len(waves[1].enemies) : ~waves[1].enemies[i].markedForDeletion

\* the last frame marked an enemy and the collection is one enemy short
C7_Witness ==
    /\ Cardinality({j \in EnemyDraws(log) : log[j].marked}) = 1
    /\ Cardinality(EnemyDraws(log)) = rows * columns
    /\ Len(waves[1].enemies) = rows * columns - 1

\* C8 as stated: the frame after one that ends at origin.x = worldWidth -
\* waveWidth moving right reverses the horizontal speed and drops by 60.
C8_BounceAtEdge ==
    [][(frame' # frame /\ waves[1].x = canvasWidth - waves[1].width /\ waves[1].speedX > 0)
        => (waves'[1].speedX = -waves[1].speedX /\ waves'[1].speedY = enemySize)]_vars

\* C8: the wave bounces in the frame that begins with origin.x outside
\* [0, worldWidth - waveWidth]; a frame that begins at 420 moving right
\* moves on to 423 with vertical speed 0, and the frame after that one
\* reverses the horizontal speed and uses vertical speed 60.
C8_BounceAfterOvershoot ==
    [][(frame' # frame)
        => LET w == waves[1]
               w2 == waves'[1]
               out == w.x < 0 \/ w.x > canvasWidth - w.width
           IN  /\ out => (w2.speedX = -w.speedX /\ w2.speedY = enemySize)
               /\ ~out => (w2.speedX = w.speedX /\ w2.speedY = 0)
               /\ w2.x = w.x + w2.speedX
               /\ (w.x = canvasWidth - w.width /\ w.speedX > 0)
                     => (w2.x = canvasWidth - w.width + waveSpeedX /\ w2.speedY = 0)]_vars

\* the right-hand bounce happened, two frames after origin.x was 420
C8_Witness ==
    /\ frame = 142
    /\ waves[1].x = canvasWidth - waves[1].width
    /\ waves[1].speedX = -waveSpeedX /\ waves[1].speedY = enemySize
    /\ waves[1].y = enemySize

Rigid ==
    \A i \in 1..Len(waves[1].enemies) :
        LET e == waves[1].enemies[i]
        IN  e.x = waves[1].x + e.positionX /\ e.y = waves[1].y + e.positionY

\* C9 as stated: in every state between frames, the one right after
\* construction included, each enemy is at origin + its grid offset.
C9_RigidAlways == Rigid

\* C9: once the first frame has run, each enemy in the collection is at
\* origin + its grid offset; right after construction each enemy is at (0, 0).
C9_RigidAfterFirstFrame ==
    /\ frame >= 1 => Rigid
    /\ frame = 0 => \A i \in 1..Len(waves[1].enemies) :
                        waves[1].enemies[i].x = 0 /\ waves[1].enemies[i].y = 0

\* frames have run, an enemy was removed, the others moved with the origin
C9_Witness ==
    /\ frame >= 2 /\ Len(waves[1].enemies) \in 1..(rows * columns - 1)
    /\ waves[1].y > -(rows * enemySize) /\ waves[1].x > 0
    /\ Rigid

\* C10: an enemy's update marks it exactly when an Active projectile
\* overlaps its repositioned rectangle; the projectiles it resets were
\* Active and are Free afterwards; a Free projectile marks no enemy,
\* whatever its stored position.
C10_MarkedIffActiveOverlap ==
    \A j \in EnemyDraws(log) :
        /\ log[j].marked <=> (\E i \in ActiveAt(log, j) :
                                 checkCollision(Rect(log[j]), Rect(log[DrawOf(log, i)])))
        /\ log[j].marked => ResetsBy(log, log[j].id) # {}
        /\ \A i \in ResetsBy(log, log[j].id) :
              i \in ActiveAt(log, j) /\ projectilesPool[i].free

\* an enemy was hit by an Active projectile while an unmarked enemy of the
\* same frame was not
C10_Witness ==
    /\ \E j \in EnemyDraws(log) : log[j].marked /\ Overlapping(log, j) # {}
    /\ \E j \in EnemyDraws(log) : ~log[j].marked /\ Overlapping(log, j) = {}

\* C5: the player's x stays within [-width/2, worldWidth - width/2].
C5_PlayerInBounds ==
    /\ player.x >= -Half(player.width)
    /\ player.x <= canvasWidth - Half(player.width)
    /\ player.x >= -50 /\ player.x <= 550

\* the left clamp acted: 61 frames of ArrowLeft from x = 250 would reach -55
C5_Witness ==
    /\ frame >= 61 /\ Includes(keys, "ArrowLeft") /\ ~Includes(keys, "ArrowRight")
    /\ player.x = -Half(player.width)
    /\ log[1].op = "fillRect" /\ log[1].kind = "player" /\ log[1].x = -Half(player.width)

\* C11: checkCollision(a, b) is true exactly when the four strict
\* inequalities hold; rectangles that only touch along an edge are not
\* reported; the call changes neither the rectangles nor the game.
C11_StrictOverlap ==
    [][(result'.done /\ ~result.done)
        => /\ result'.ab <=> (/\ rectA.x < rectB.x + rectB.width
                              /\ rectA.x + rectA.width > rectB.x
                              /\ rectA.y < rectB.y + rectB.height
                              /\ rectA.y + rectA.height > rectB.y)
           /\ (\/ rectA.x + rectA.width = rectB.x
               \/ rectB.x + rectB.width = rectA.x
               \/ rectA.y + rectA.height = rectB.y
               \/ rectB.y + rectB.height = rectA.y) => ~result'.ab
           /\ rectA' = rectA /\ rectB' = rectB
           /\ UNCHANGED gameVars]_vars

\* a's right edge is b's left edge, the rectangles share a stretch of that
\* edge, and the call reported no collision
C11_Witness ==
    /\ result.done /\ ~result.ab
    /\ rectA.width > 0 /\ rectB.width > 0
    /\ rectA.x + rectA.width = rectB.x
    /\ rectA.y < rectB.y + rectB.height /\ rectA.y + rectA.height > rectB.y

\* C12: checkCollision(a, b) = checkCollision(b, a).
C12_Symmetric == result.done => (result.ab = result.ba)

\* two different rectangles, a strictly left of and above b, that collide
\* in both argument orders
C12_Witness ==
    /\ result.done /\ result.ab /\ result.ba
    /\ rectA.x < rectB.x /\ rectA.y < rectB.y
    /\ rectA.width # rectB.width

NoDuplicates(s) == \A i, j \in 1..Len(s) : s[i] = s[j] => i = j

\* C13: the held-key list never holds a key twice; a key-down adds the key
\* at the end unless it is held already, a key-up takes the key out if it
\* is held and changes nothing otherwise, and a frame leaves the list alone.
C13_HeldKeysNoDuplicates ==
    [][/\ NoDuplicates(keys) /\ NoDuplicates(keys')
       /\ (nEvents' # nEvents /\ event'.type = "keydown")
            => keys' = IF \E i \in 1..Len(keys) : keys[i] = event'.key
                       THEN keys ELSE keys \o <<event'.key>>
       /\ (nEvents' # nEvents /\ event'.type = "keyup")
            => keys' = SelectSeq(keys, LAMBDA x : x # event'.key)
       /\ (frame' # frame) => keys' = keys]_vars

\* two key-downs of "1" in a row, both of which fired: the key is held once
C13_Witness ==
    /\ frame = 1 /\ nEvents = 2 /\ ActiveCount = 2
    /\ event = [type |-> "keydown", key |-> "1"]
    /\ keys = <<"1">>

Shoots(l) == {j \in 1..Len(l) : l[j].op = "shoot"}

Starts(l) == {j \in 1..Len(l) : l[j].op = "start"}

\* C14: a slot goes from Free to Active only in the handling of a key-down
\* of "1"; each such key-down calls shoot() exactly once; no other key
\* event and no frame (also with "1" held) calls shoot() or activates a slot.
C14_FireOnKeyDownOnly ==
    [][/\ ~(ActiveSlots' \subseteq ActiveSlots)
            => (nEvents' # nEvents /\ event' = [type |-> "keydown", key |-> "1"])
       /\ (nEvents' # nEvents /\ event' = [type |-> "keydown", key |-> "1"])
            => /\ Cardinality(Shoots(log')) = 1
               /\ Cardinality(Starts(log')) <= 1
               /\ Cardinality(ActiveSlots' \ ActiveSlots) = Cardinality(Starts(log'))
       /\ (nEvents' # nEvents /\ event' # [type |-> "keydown", key |-> "1"])
            => (Shoots(log') = {} /\ Starts(log') = {})
       /\ (frame' # frame)
            => (Shoots(log') = {} /\ Starts(log') = {} /\ ActiveSlots' \subseteq ActiveSlots)]_vars

\* a frame ran with "1" held and free slots left, and fired nothing
C14_Witness ==
    /\ event.type = "frame"
    /\ Includes(keys, "1")
    /\ ActiveCount = 1
    /\ \A i \in ActiveSlots : projectilesPool[i].y = player.y - projectileSpeed

Slots == 1..numberOfProjectiles

\* C15: while frames keep occurring every Active projectile becomes Free;
\* each frame lowers an Active projectile's y by 20 and Projectile.update
\* frees it in the first frame that leaves it below -20, so a projectile
\* fired at y = 700 that hits nothing is Active at y = -20 after 36 frames
\* and freed, at y = -40, in the 37th.
C15_ProjectileExpires ==
    /\ [][(frame' # frame)
            => \A i \in ActiveSlots :
                 LET p == projectilesPool[i]
                     p2 == projectilesPool'[i]
                     exits == {j \in Resets(log') : log'[j].kind = "update" /\ log'[j].id = i}
                     hits == {j \in Resets(log') : log'[j].kind = "enemy" /\ log'[j].id = i}
                 IN  /\ p2.y = p.y - 20 /\ p2.x = p.x
                     /\ (p2.y < -20) <=> exits # {}
                     /\ p2.free <=> (exits # {} \/ hits # {})
                     /\ exits # {} => p2.y = 700 - 37 * 20]_vars
    /\ [](\A i \in ActiveSlots :
            /\ projectilesPool[i].y \in (-20)..700
            /\ (700 - projectilesPool[i].y) % 20 = 0)
    /\ \A i \in Slots : (~projectilesPool[i].free) ~> projectilesPool[i].free

\* a projectile fired right after the first frame left the top in frame 38
C15_Witness ==
    /\ frame = 1 + ProjectileLifetime
    /\ \E j \in Resets(log) :
          /\ log[j].kind = "update" /\ log[j].y = -40
          /\ projectilesPool[log[j].id].free
          /\ projectilesPool[log[j].id].y = -40

\* C16: a shoot() that finds a free slot makes the lowest-index Free slot
\* Active at x = player.x + player.width/2 - projectile.width/2, y =
\* player.y, and changes no other slot, nor the player, nor the wave.
C16_ShootStartsLowestFree ==
    [][(/\ nEvents' # nEvents
        /\ event' = [type |-> "keydown", key |-> "1"]
        /\ \E i \in Slots : projectilesPool[i].free)
        => LET lowest == CHOOSE i \in Slots :
                            /\ projectilesPool[i].free
                            /\ \A j \in 1..(i-1) : ~projectilesPool[j].free
           IN  /\ ~projectilesPool'[lowest].free
               /\ projectilesPool'[lowest].x = player.x + 50 - 2
               /\ 2 * projectilesPool'[lowest].x + projectilesPool'[lowest].width
                     = 2 * player.x + player.width
               /\ projectilesPool'[lowest].y = player.y
               /\ \A j \in Slots \ {lowest} : projectilesPool'[j] = projectilesPool[j]
               /\ DOMAIN projectilesPool' = Slots
               /\ player' = player
               /\ waves' = waves]_vars

\* slot 1, freed at the top, was fired again from a moved player while
\* slot 2 was still in flight
C16_Witness ==
    /\ event = [type |-> "keydown", key |-> "1"]
    /\ IsShootLog(log) /\ log[1].id = 1
    /\ frame > ProjectileLifetime
    /\ player.x # NewPlayer.x
    /\ ~projectilesPool[1].free /\ projectilesPool[1].y = player.y
    /\ projectilesPool[1].x = player.x + 48
    /\ ~projectilesPool[2].free /\ projectilesPool[2].y < 0

\* log entries made by the projectile pass and by the wave pass of a frame
ProjectileEntries(l) ==
    {j \in 1..Len(l) : l[j].kind = "update" \/ l[j].kind = "projectile"}

WaveEntries(l) == {j \in 1..Len(l) : l[j].kind = "enemy"}

\* C17: a frame draws the player (at its position before the update) and
\* then updates it; then updates and draws each projectile in slot order;
\* then moves the wave and updates and draws each enemy in collection order
\* before pruning.  The enemies' collision checks see the projectiles where
\* this frame's move put them and never one freed at the top in this frame.
C17_FrameOrder ==
    [][(frame' # frame)
        => /\ log'[1] = [op |-> "fillRect", kind |-> "player", id |-> 0,
                         x |-> player.x, y |-> player.y, width |-> player.width,
                         height |-> player.height, by |-> 0, marked |-> FALSE]
           /\ \A j \in 2..Len(log') : j \in ProjectileEntries(log') \cup WaveEntries(log')
           /\ \A j \in ProjectileEntries(log'), k \in WaveEntries(log') : j < k
           /\ \A j, k \in ProjectileEntries(log') : j < k => log'[j].id < log'[k].id
           /\ \A j \in ProjectileEntries(log') :
                 /\ ~projectilesPool[log'[j].id].free
                 /\ log'[j].y = projectilesPool[log'[j].id].y - projectileSpeed
                 /\ log'[j].op = "reset" <=> log'[j].y < -projectileHeight
           /\ {log'[j].id : j \in ProjectileEntries(log')} = ActiveSlots
           /\ \A j \in EnemyDraws(log') :
                 \E i \in 1..Len(waves[1].enemies) :
                     /\ EnemyId(waves[1].enemies[i]) = log'[j].id
                     /\ log'[j].x = waves'[1].x + waves[1].enemies[i].positionX
                     /\ log'[j].y = waves'[1].y + waves[1].enemies[i].positionY
                     /\ Cardinality({k \in EnemyDraws(log') : k < j}) = i - 1
           /\ Cardinality(EnemyDraws(log')) = Len(waves[1].enemies)
           /\ \A j \in WaveEntries(log') :
                 log'[j].op = "reset"
                     => /\ log'[j].y = projectilesPool[log'[j].id].y - projectileSpeed
                        /\ log'[j].y >= -projectileHeight
                        /\ \E k \in ProjectileDraws(log') : log'[k].id = log'[j].id
                        /\ \A k \in ProjectileEntries(log') :
                              log'[k].id = log'[j].id => log'[k].op = "fillRect"
                        /\ \E k \in EnemyDraws(log') :
                              /\ k > j /\ log'[k].id = log'[j].by
                              /\ checkCollision(Rect(log'[k]), Rect(log'[j]))]_vars

\* in the last frame the player moved after it was drawn and an enemy
\* reset a projectile that this frame had moved and drawn
C17_Witness ==
    /\ event.type = "frame"
    /\ log[1].kind = "player" /\ log[1].x # player.x
    /\ \E j \in WaveEntries(log) :
          /\ log[j].op = "reset"
          /\ \E k \in ProjectileDraws(log) : k < j /\ log[k].id = log[j].id

\* C18: the entry easing starts from origin.y = -waveHeight and adds the
\* fixed increment in exactly the frames that begin with origin.y < 0; it
\* never leaves origin.y more than increment - 1 above 0, and origin.y never
\* goes from 0 or more back below 0.
C18_EntryEasing ==
    [][(frame' # frame)
        => LET w == waves[1]
               w2 == waves'[1]
               ease == w2.y - w2.speedY - w.y
           IN  /\ frame = 0 => (w.y = -w.height /\ w.y = -180)
               /\ ease \in {0, waveEntryStep} /\ waveEntryStep = 5
               /\ ease = waveEntryStep <=> w.y < 0
               /\ w.y < 0 => w.y + ease <= waveEntryStep - 1
               /\ w.y >= 0 => w2.y >= 0]_vars

\* the easing ended at exactly 0 in frame 36 and the next frame left it there
C18_Witness ==
    /\ frame = 37 /\ event.type = "frame"
    /\ waves[1].y = 0 /\ waves[1].speedY = 0

\* C19: every frame ends with origin.x within one horizontal step of
\* [0, worldWidth - waveWidth]; a frame that begins with origin.x outside
\* that interval reverses the horizontal speed, drops the wave by one enemy
\* cell and ends with origin.x inside the interval.
C19_OvershootBounded ==
    [][(frame' # frame)
        => LET w == waves[1]
               w2 == waves'[1]
               right == canvasWidth - w.width
           IN  /\ w2.x >= -waveSpeedX /\ w2.x <= right + waveSpeedX
               /\ w2.x >= -3 /\ w2.x <= 423
               /\ (w.x < 0 \/ w.x > right)
                     => /\ w2.speedX = -w.speedX
                        /\ w2.speedY = enemySize
                        /\ w2.y = w.y + enemySize
                        /\ w2.x >= 0 /\ w2.x <= right]_vars

\* the left-hand bounce happened: the frame before ended at -3, this one
\* ended at 0 moving right, a second cell lower
C19_Witness ==
    /\ frame = 284 /\ event.type = "frame"
    /\ waves[1].x = 0 /\ waves[1].speedX = waveSpeedX
    /\ waves[1].speedY = enemySize /\ waves[1].y = 2 * enemySize

\* enemies drawn in this frame whose rectangle overlaps the projectile
\* drawn at l[k]
EnemiesOver(l, k) ==
    {j \in EnemyDraws(l) : checkCollision(Rect(l[j]), Rect(l[k]))}

EnemyResets(l) == {j \in Resets(l) : l[j].kind = "enemy"}

\* C20: a projectile is reset by at most one enemy in a frame: the first
\* enemy in iteration order that it overlaps; a later enemy it overlaps is
\* not marked on its account; and the enemies marked in a frame are no more
\* than the projectiles reset by collision in that frame.
C20_OneEnemyPerProjectile ==
    /\ \A j, k \in EnemyResets(log) : log[j].id = log[k].id => j = k
    /\ \A k \in ProjectileDraws(log) :
          EnemiesOver(log, k) # {}
              => LET first == CHOOSE j \in EnemiesOver(log, k) :
                                  \A m \in EnemiesOver(log, k) : j <= m
                 IN  /\ log[first].marked
                     /\ log[k].id \in ResetsBy(log, log[first].id)
                     /\ projectilesPool[log[k].id].free
                     /\ \A m \in EnemiesOver(log, k) \ {first} :
                           /\ log[k].id \notin ResetsBy(log, log[m].id)
                           /\ log[m].marked => ResetsBy(log, log[m].id) # {}
    /\ Cardinality({j \in EnemyDraws(log) : log[j].marked})
          <= Cardinality(EnemyResets(log))

\* a projectile overlapped two enemies of this frame; the first was marked
\* and the second was drawn unmarked
C20_Witness ==
    \E k \in ProjectileDraws(log) :
        \E j, m \in EnemiesOver(log, k) :
            /\ j < m
            /\ log[j].marked /\ ~log[m].marked
            /\ ResetsBy(log, log[j].id) = {log[k].id}

====
